---- MODULE Spec2Model ----
(***************************************************************************)
(* A model of gitbot: the webhook endpoint "/" and the revert API          *)
(* "/api/revert" of gitbot/deployhook.py, and the Command Runner and the   *)
(* Checkout Synchronizer of lib.py.  Requests run concurrently, one        *)
(* thread per request; a step of the model is one external command (one    *)
(* call of run) or the in-process code between two of them.                *)
(***************************************************************************)
EXTENDS Integers, Sequences, FiniteSets, TLC

VARIABLES
    cfg,        \* the configuration imported from gitbot.config
    remote,     \* remote[repo]: the commits on master of the GitHub remote
    checkout,   \* checkout[repo]: the shared checkout on disk
    tmpdirs,    \* tmpdirs[r]: the directory tempfile.mkdtemp() made for r
    req,        \* req[r]: the request thread r is serving
    pc,         \* pc[r]: where thread r is
    subject,    \* subject[r]: the local variable of process_git_revert
    cmds,       \* cmds[r]: the commands run() has executed for r, in order
    resp,       \* resp[r]: the response returned for r
    sentry,     \* sentry[r]: what r sent to the error-reporting sink
    extPushes,  \* pushes made to the remotes by others so far
    completed,  \* completed[repo]: the newest tip a completed sync brought in
    syncBase,   \* syncBase[r]: completed[repo] when r's sync began
    pushedTip   \* pushedTip[r]: the remote's tip right after r's push

vars == <<cfg, remote, checkout, tmpdirs, req, pc, subject, cmds, resp,
          sentry, extPushes, completed, syncBase, pushedTip>>

----------------------------------------------------------------------------
(* Bounds *)

\* commits on each remote's master when the process starts
InitCommits == 2
\* pushes to a remote by anyone but gitbot
MaxExternal == 1

\* the request threads
Reqs == {"r1", "r2"}
Before(q, r) == q = "r1" /\ r = "r2"

----------------------------------------------------------------------------
(* Strings.  A string is a sequence of tokens; the tokens that matter are   *)
(* kept apart: Q is the double quote, "sha1=" and "getsentry/sentry@" are   *)
(* the literal texts, any other token is some text without a double quote.  *)
(* The tokens of a signature header are tuples: the literal "sha1=", a      *)
(* digest, or a character outside ASCII.                                    *)

Q == "\""
SigPrefix == <<"sha1=">>
NonAscii == <<"U+00E9">>
BumpMarker == "getsentry/sentry@"

\* str.replace(tok, "")
RECURSIVE Remove(_, _)
Remove(s, tok) ==
    IF s = <<>> THEN <<>>
    ELSE IF Head(s) = tok THEN Remove(Tail(s), tok)
    ELSE <<Head(s)>> \o Remove(Tail(s), tok)

\* str.startswith(prefix)
StartsWith(s, prefix) ==
    /\ Len(s) >= Len(prefix)
    /\ SubSeq(s, 1, Len(prefix)) = prefix

----------------------------------------------------------------------------
(* The repositories *)

Repos == {"sentry", "getsentry"}

\* the subject line of the k-th commit of master
SubjectOf(k) ==
    CASE k = 1 -> <<BumpMarker, "abc123">>
      [] k = 3 -> <<Q, BumpMarker, "abc123", Q>>
      [] OTHER -> <<"fix(search): Correct a few types">>

\* a checkout: whether the path exists, the commits of the remote its master
\* and its origin/master hold, the commits its master holds that the remote
\* does not, and whether its working tree has uncommitted changes
Absent == [exists |-> FALSE, master |-> 0, origin |-> 0, ahead |-> 0,
           dirty |-> FALSE]
NoTmp == [exists |-> FALSE, cloned |-> FALSE, base |-> 0,
          staged |-> FALSE, committed |-> FALSE]

----------------------------------------------------------------------------
(* Signature Verifier *)

\* hmac.new(secret, payload, sha1).hexdigest(): a keyed digest, a string of
\* one token that names the key and the message it was computed from
hexdigest(secret, payload) == << <<"hmac-sha1", secret, payload>> >>

\* hmac.compare_digest(a, b): equality of the two strings
compare_digest(a, b) == a = b

\* hmac.compare_digest(a, b) raises TypeError when a string holds a character
\* outside ASCII
compare_digest_raises(a, b) ==
    \E s \in {a, b} : \E i \in 1 .. Len(s) : s[i] = NonAscii

valid_payload(secret, payload, signature) ==
    compare_digest(hexdigest(secret, payload), signature)

\* valid_payload does not return: compare_digest raised
valid_payload_raises(secret, payload, signature) ==
    compare_digest_raises(hexdigest(secret, payload), signature)

\* a request without a signature is let through
RefusedUnlessMissing(secret, payload, header) ==
    /\ secret # ""
    /\ header # <<>>
    /\ ~valid_payload(secret, payload, Remove(header, SigPrefix))

\* GITBOT_API_SECRET and not valid_payload(...): the request is refused
Refused(secret, payload, header) ==
    /\ secret # ""
    /\ ~valid_payload(secret, payload, Remove(header, SigPrefix))

\* the same condition does not evaluate: valid_payload raised TypeError
Crashed(secret, payload, header) ==
    /\ secret # ""
    /\ valid_payload_raises(secret, payload, Remove(header, SigPrefix))

----------------------------------------------------------------------------
(* Command Runner *)

\* the default of run's parameter capture
CaptureDefault == FALSE

\* what run() returns as execution.stdout: the command's output when it was
\* captured, the empty string when it was not (stdout is then None)
RunStdout(output, capture) == IF capture THEN output ELSE <<>>

\* only an exit code above 1 raises
RaisesAboveOne(returncode) == returncode > 1

\* run() raises CommandError exactly on a non-zero exit
Raises(returncode) == returncode # 0

\* the exit codes a command can end with
ExitCodes == {0, 1}

Cmd(name, cwd, returncode) ==
    [cmd |-> name, cwd |-> cwd, returncode |-> returncode]

----------------------------------------------------------------------------
(* Responses *)

NoSha == <<"(no revert_sha)">>
NoResp == [status |-> 0, reason |-> "", revert_sha |-> NoSha]

Message(text) == [kind |-> "message", text |-> text]
Exception(text) == [kind |-> "exception", text |-> text]

\* what reaches the sink of the events handed to sentry_sdk: boot() calls
\* sentry_sdk.init only outside development, and without it they are dropped
Reported(events) == IF cfg.ENV # "development" THEN events ELSE <<>>

\* every response is reported, also those with status 200
respond_capturing_all(r, reason, revert_sha, status_code, captured) ==
    /\ resp' = [resp EXCEPT ![r] = [status |-> status_code, reason |-> reason,
                                    revert_sha |-> revert_sha]]
    /\ sentry' = [sentry EXCEPT ![r] =
                    sentry[r] \o Reported(captured \o <<Message(reason)>>)]
    /\ pc' = [pc EXCEPT ![r] = "done"]

\* respond(data, status_code), after `captured` was sent to the sink
respond(r, reason, revert_sha, status_code, captured) ==
    /\ resp' = [resp EXCEPT ![r] = [status |-> status_code, reason |-> reason,
                                    revert_sha |-> revert_sha]]
    /\ sentry' = [sentry EXCEPT ![r] =
                    sentry[r] \o
                    Reported(captured \o (IF status_code # 200
                                          THEN <<Message(reason)>> ELSE <<>>))]
    /\ pc' = [pc EXCEPT ![r] = "done"]

\* an exception no handler catches: Flask answers 500, and the FlaskIntegration
\* that boot() installs outside development reports the exception
Unhandled(r, exc) ==
    /\ resp' = [resp EXCEPT ![r] = [status |-> 500,
                                    reason |-> "Internal Server Error",
                                    revert_sha |-> NoSha]]
    /\ sentry' = [sentry EXCEPT ![r] =
                    sentry[r] \o Reported(<<Exception(exc)>>)]
    /\ pc' = [pc EXCEPT ![r] = "done"]

----------------------------------------------------------------------------
(* The requests *)

RevertBodies == [repo : Repos, sha : 0 .. InitCommits, name : {"Jane Doe"}]

\* the X-Signature / X-Hub-Signature header values tried for a payload:
\* no header, the right key's signature with and without the sha1= prefix,
\* a wrong key's signature, the right key's signature of another payload, and
\* a value with a character outside ASCII
HeaderKinds ==
    {"missing", "signed", "prefixed", "wrongkey", "replayed", "nonascii"}

Header(kind, payload, other) ==
    CASE kind = "missing"  -> <<>>
      [] kind = "signed"   -> hexdigest("key", payload)
      [] kind = "prefixed" -> <<SigPrefix>> \o hexdigest("key", payload)
      [] kind = "wrongkey" -> <<SigPrefix>> \o hexdigest("wrong", payload)
      [] kind = "replayed" -> <<SigPrefix>> \o hexdigest("key", other)
      [] kind = "nonascii" -> <<SigPrefix, NonAscii>>

NoReq == [endpoint |-> "none"]

\* the repository a revert request works on
TargetRepo(repo) == IF repo = "sentry" THEN "sentry" ELSE "getsentry"

\* the repository thread r synchronizes
RepoOf(r) ==
    IF req[r].endpoint = "/api/revert" THEN TargetRepo(req[r].body.repo)
    ELSE "getsentry"

\* the threads are taken in order: r serves a request once the threads
\* before it do
Arrived(r) == \A q \in Reqs : Before(q, r) => pc[q] # "idle"

\* the handler's except clause: revert() catches CommandError
CommandError(r) ==
    /\ respond(r, "Failed to revert.", NoSha, 400, <<Exception("CommandError")>>)

\* the first step of update_checkout: os.path.exists(checkout)
update_checkout_entry(repo) ==
    IF checkout[repo].exists THEN "fetch" ELSE "clone"

----------------------------------------------------------------------------
(* Steps shared by the handlers *)

Continue(r, next) ==
    /\ pc' = [pc EXCEPT ![r] = next]
    /\ UNCHANGED <<resp, sentry>>

Ran(r, name, cwd, returncode) ==
    cmds' = [cmds EXCEPT ![r] = Append(@, Cmd(name, cwd, returncode))]

\* what bump_version returns: (updated, reason)
BumpDone == [updated |-> TRUE, reason |-> "Executed bump-sentry"]
BumpFailed == [updated |-> FALSE, reason |-> "bump-sentry failed"]

\* every bump is answered 200
StatusAlwaysOk(updated) == 200

\* status_code=200 if updated else 400
StatusOf(updated) == IF updated THEN 200 ELSE 400

\* updated, reason = bump_version(branch, ref_sha)
\* return respond(reason, status_code=200 if updated else 400)
RespondBump(r, result) ==
    respond(r, result.reason, NoSha, StatusOf(result.updated), <<>>)

\* a CommandError raised in thread r reaches the except clause of revert(),
\* or bump_version returns (False, reason) to process_pull_request
Abort(r) ==
    IF req[r].endpoint = "/api/revert" THEN CommandError(r)
    ELSE RespondBump(r, BumpFailed)

\* where the caller of update_checkout goes on
AfterSync(r) ==
    IF req[r].endpoint = "/api/revert" THEN "clone_tmp" ELSE "bump"

\* the sha a git command prints
ShaText(k) == <<ToString(k)>>

Max(a, b) == IF a >= b THEN a ELSE b

----------------------------------------------------------------------------
(* Checkout Synchronizer: update_checkout(repo_url, checkout) *)

\* run(f"git clone {repo_url} {checkout}"): refused when the path exists
GitClone(r) ==
    /\ pc[r] = "clone"
    /\ \E rc \in ExitCodes :
        LET repo == RepoOf(r)
            returncode == IF checkout[repo].exists THEN 128 ELSE rc
        IN  /\ Ran(r, "git clone repo_url checkout", "/tmp", returncode)
            /\ IF Raises(returncode)
               THEN Abort(r) /\ UNCHANGED checkout
               ELSE /\ checkout' = [checkout EXCEPT ![repo] =
                            [exists |-> TRUE, master |-> remote[repo],
                             origin |-> remote[repo], ahead |-> 0,
                             dirty |-> FALSE]]
                    /\ Continue(r, "config")
    /\ UNCHANGED <<cfg, remote, tmpdirs, req, subject, extPushes, completed,
                   syncBase, pushedTip>>

\* run("git config pull.rebase false", cwd=checkout)
GitConfig(r) ==
    /\ pc[r] = "config"
    /\ \E rc \in ExitCodes :
        /\ Ran(r, "git config pull.rebase false", "checkout", rc)
        /\ IF Raises(rc) THEN Abort(r) ELSE Continue(r, "fetch")
    /\ UNCHANGED <<cfg, remote, checkout, tmpdirs, req, subject, extPushes,
                   completed, syncBase, pushedTip>>

\* run("git fetch origin master", cwd=checkout)
GitFetch(r) ==
    /\ pc[r] = "fetch"
    /\ \E rc \in ExitCodes :
        LET repo == RepoOf(r)
        IN  /\ Ran(r, "git fetch origin master", "checkout", rc)
            /\ IF Raises(rc)
               THEN Abort(r) /\ UNCHANGED checkout
               ELSE /\ checkout' = [checkout EXCEPT ![repo].origin = remote[repo]]
                    /\ Continue(r, "reset")
    /\ UNCHANGED <<cfg, remote, tmpdirs, req, subject, extPushes, completed,
                   syncBase, pushedTip>>

\* git reset origin/master: the branch moves, the working tree is kept
ResetMixed(c) ==
    [c EXCEPT !.master = c.origin, !.ahead = 0,
              !.dirty = c.dirty \/ c.ahead # 0 \/ c.master # c.origin]

\* git reset --hard origin/master: the branch and the working tree are those
\* of origin/master
ResetHard(c) == [c EXCEPT !.master = c.origin, !.ahead = 0, !.dirty = FALSE]

\* run("git reset --hard origin/master", cwd=checkout)
GitReset(r) ==
    /\ pc[r] = "reset"
    /\ \E rc \in ExitCodes :
        LET repo == RepoOf(r)
        IN  /\ Ran(r, "git reset --hard origin/master", "checkout", rc)
            /\ IF Raises(rc)
               THEN Abort(r) /\ UNCHANGED checkout
               ELSE /\ checkout' = [checkout EXCEPT ![repo] =
                            ResetHard(checkout[repo])]
                    /\ Continue(r, "pull")
    /\ UNCHANGED <<cfg, remote, tmpdirs, req, subject, extPushes, completed,
                   syncBase, pushedTip>>

\* run("git pull origin master", cwd=checkout), the last command of
\* update_checkout: the caller goes on
GitPull(r) ==
    /\ pc[r] = "pull"
    /\ \E rc \in ExitCodes :
        LET repo == RepoOf(r)
            tip == Max(checkout[repo].master, remote[repo])
        IN  /\ Ran(r, "git pull origin master", "checkout", rc)
            /\ IF Raises(rc)
               THEN Abort(r) /\ UNCHANGED <<checkout, completed>>
               ELSE /\ checkout' = [checkout EXCEPT ![repo].exists = TRUE,
                                                    ![repo].master = tip,
                                                    ![repo].origin = remote[repo]]
                    /\ completed' = [completed EXCEPT ![repo] = Max(@, tip)]
                    /\ Continue(r, AfterSync(r))
    /\ UNCHANGED <<cfg, remote, tmpdirs, req, subject, extPushes, syncBase,
                   pushedTip>>

----------------------------------------------------------------------------
(* Revert Workflow: revert() and process_git_revert() *)

\* POST /api/revert: the signature check, then process_git_revert up to its
\* first command: tempfile.mkdtemp() and the entry of update_checkout
revert(r, kinds) ==
    /\ pc[r] = "idle"
    /\ Arrived(r)
    /\ \E body \in RevertBodies, kind \in kinds :
       LET header == Header(kind, body, [body EXCEPT !.name = "Mallory"])
       IN
        /\ req' = [req EXCEPT ![r] =
                     [endpoint |-> "/api/revert", header |-> header,
                      body |-> body]]
        /\ IF Crashed(cfg.GITBOT_API_SECRET, body, header)
           THEN /\ Unhandled(r, "TypeError")
                /\ UNCHANGED <<tmpdirs, syncBase>>
           ELSE IF Refused(cfg.GITBOT_API_SECRET, body, header)
           THEN /\ respond(r, "Cannot validate payload signature.", NoSha,
                           403, <<>>)
                /\ UNCHANGED <<tmpdirs, syncBase>>
           ELSE /\ tmpdirs' = [tmpdirs EXCEPT ![r].exists = TRUE]
                /\ syncBase' = [syncBase EXCEPT ![r] =
                                  completed[TargetRepo(body.repo)]]
                /\ Continue(r, update_checkout_entry(TargetRepo(body.repo)))
    /\ UNCHANGED <<cfg, remote, checkout, subject, cmds, extPushes, completed,
                   pushedTip>>

\* run(f"git clone {checkout} {tmp_dir}")
CloneTmp(r) ==
    /\ pc[r] = "clone_tmp"
    /\ \E rc \in ExitCodes :
        LET repo == RepoOf(r)
        IN  /\ Ran(r, "git clone checkout tmp_dir", "/tmp", rc)
            /\ IF Raises(rc)
               THEN Abort(r) /\ UNCHANGED tmpdirs
               ELSE /\ tmpdirs' = [tmpdirs EXCEPT ![r] =
                            [exists |-> TRUE, cloned |-> TRUE,
                             base |-> checkout[repo].master,
                             staged |-> FALSE, committed |-> FALSE]]
                    /\ Continue(r, "log")
    /\ UNCHANGED <<cfg, remote, checkout, req, subject, extPushes, completed,
                   syncBase, pushedTip>>

\* the output of git log -1 --format="%s" {sha}: run() splits the command at
\* blanks and no shell strips the quotes, so git prints them
LogOutput(sha) == <<Q>> \o SubjectOf(sha) \o <<Q>>

\* msg = f"{sha} cannot be reverted because it needs to be reverted in Sentry"
GuardReason == "cannot be reverted because it needs to be reverted in Sentry"

\* the cross-repository guard
Guard(repo, subj) == repo = "getsentry" /\ StartsWith(subj, <<BumpMarker>>)

\* execution = run(f'git log -1 --format="%s" {sha}', cwd=tmp_dir), the
\* subject and the guard
GitLog(r) ==
    /\ pc[r] = "log"
    /\ \E rc \in ExitCodes :
        LET sha == req[r].body.sha
            known == 1 <= sha /\ sha <= tmpdirs[r].base
            returncode == IF known THEN rc ELSE 128
            stdout == RunStdout(LogOutput(sha), CaptureDefault)
            subj == Remove(stdout, Q)
        IN  /\ Ran(r, "git log", "tmp_dir", returncode)
            /\ IF Raises(returncode)
               THEN Abort(r) /\ UNCHANGED subject
               ELSE /\ subject' = [subject EXCEPT ![r] = subj]
                    /\ IF Guard(req[r].body.repo, subj)
                       THEN respond(r, GuardReason, NoSha, 400, <<>>)
                       ELSE Continue(r, "revert")
    /\ UNCHANGED <<cfg, remote, checkout, tmpdirs, req, extPushes, completed,
                   syncBase, pushedTip>>

\* run(f"git revert --no-commit {sha}", cwd=tmp_dir)
GitRevert(r) ==
    /\ pc[r] = "revert"
    /\ \E rc \in ExitCodes :
        /\ Ran(r, "git revert --no-commit", "tmp_dir", rc)
        /\ IF Raises(rc)
           THEN Abort(r) /\ UNCHANGED tmpdirs
           ELSE /\ tmpdirs' = [tmpdirs EXCEPT ![r].staged = TRUE]
                /\ Continue(r, "commit")
    /\ UNCHANGED <<cfg, remote, checkout, req, subject, extPushes, completed,
                   syncBase, pushedTip>>

\* the commit is made in the shared checkout
CommitInCheckout == "checkout"

\* the working directory of the commit
CommitCwd == "tmp_dir"

\* run(["git", "commit", "-m", ...], cwd=tmp_dir): the commit is made in the
\* repository of the working directory
GitCommit(r) ==
    /\ pc[r] = "commit"
    /\ \E rc \in ExitCodes :
        LET repo == RepoOf(r)
            returncode == IF tmpdirs[r].staged THEN rc ELSE 1
        IN  /\ Ran(r, "git commit", CommitCwd, returncode)
            /\ IF Raises(returncode)
               THEN Abort(r) /\ UNCHANGED <<tmpdirs, checkout>>
               ELSE /\ IF CommitCwd = "tmp_dir"
                       THEN /\ tmpdirs' = [tmpdirs EXCEPT ![r].staged = FALSE,
                                                         ![r].committed = TRUE]
                            /\ UNCHANGED checkout
                       ELSE /\ checkout' = [checkout EXCEPT ![repo].master = @ + 1]
                            /\ UNCHANGED tmpdirs
                    /\ Continue(r, "push")
    /\ UNCHANGED <<cfg, remote, req, subject, extPushes, completed,
                   syncBase, pushedTip>>

\* DRY_RUN is not looked at
PushArgsWithoutDryRun(dry_run) == "git push"

\* push_args, with --dry-run when DRY_RUN
PushArgs(dry_run) == IF dry_run THEN "git push --dry-run" ELSE "git push"

\* run(push_args, cwd=tmp_dir): the remote takes the commit only as a
\* fast-forward of its master, and a dry run sends nothing
GitPush(r) ==
    /\ pc[r] = "push"
    /\ \E rc \in ExitCodes :
        LET repo == RepoOf(r)
            base == tmpdirs[r].base
            returncode == IF remote[repo] = base THEN rc ELSE 1
            sent == PushArgs(cfg.DRY_RUN) = "git push"
        IN  /\ Ran(r, PushArgs(cfg.DRY_RUN), "tmp_dir", returncode)
            /\ IF Raises(returncode)
               THEN Abort(r) /\ UNCHANGED <<remote, pushedTip>>
               ELSE /\ remote' = [remote EXCEPT ![repo] =
                                    IF sent THEN base + 1 ELSE @]
                    /\ pushedTip' = [pushedTip EXCEPT ![r] =
                                       IF sent THEN base + 1 ELSE remote[repo]]
                    /\ Continue(r, "rev_parse")
    /\ UNCHANGED <<cfg, checkout, tmpdirs, req, subject, extPushes, completed,
                   syncBase>>

\* the output of git rev-parse origin/master in the temporary clone, whose
\* origin is the shared checkout it was cloned from
RevParseOutput(tmp) == ShaText(tmp.base)

\* revert_sha = run("git rev-parse origin/master", cwd=tmp_dir).stdout and
\* the response
GitRevParse(r) ==
    /\ pc[r] = "rev_parse"
    /\ \E rc \in ExitCodes :
        LET revert_sha == RunStdout(RevParseOutput(tmpdirs[r]), CaptureDefault)
        IN  /\ Ran(r, "git rev-parse origin/master", "tmp_dir", rc)
            /\ IF Raises(rc)
               THEN Abort(r)
               ELSE respond(r, "reverted.", revert_sha, 200, <<>>)
    /\ UNCHANGED <<cfg, remote, checkout, tmpdirs, req, subject, extPushes,
                   completed, syncBase, pushedTip>>

----------------------------------------------------------------------------
(* Event Classifier and Version Bump: index() and process_pull_request() *)

SENTRY_REPO_UPSTREAM == "getsentry/sentry"
GITBOT_MARKER == "#sync-getsentry"

\* a body is JSON null or a text
NullBody == [null |-> TRUE, text |-> <<>>]
Text(s) == [null |-> FALSE, text |-> s]

\* pull_request["body"] or ""
OrEmpty(body) == IF body.null THEN <<>> ELSE body.text

\* an empty body is taken to hold the marker
NotFoundUnlessEmpty(s, tok) == s # <<>> /\ \A i \in 1 .. Len(s) : s[i] # tok

\* body.find(marker) == -1
NotFound(s, tok) == \A i \in 1 .. Len(s) : s[i] # tok

PullRequests ==
    [action : {"opened", "synchronize", "closed"},
     repository : {SENTRY_REPO_UPSTREAM, "fork/sentry"},
     head_repo : {SENTRY_REPO_UPSTREAM, "fork/sentry"},
     base_repo : {SENTRY_REPO_UPSTREAM, "fork/sentry"},
     merged : BOOLEAN,
     body : {NullBody, Text(<<"Fixes a bug.">>),
             Text(<<"Fixes a bug.", GITBOT_MARKER>>)},
     sha : {"", "abc123"},
     ref : {"feat/branch"}]

EventTypes == {"pull_request", "push"}

Proceed == "bump_version"

\* closed is taken for a supported action
UnsupportedButClosed(action) == action \notin {"synchronize", "opened", "closed"}

\* action not in ["synchronize", "opened"]
Unsupported(action) == action \notin {"synchronize", "opened"}

\* the merged flag is not read
MergedNotRead(data) == FALSE

\* pull_request["merged"]
Merged(data) == data.merged

\* the marker is looked for before the stage is
process_pull_request_marker_first(data) ==
    IF Unsupported(data.action)
    THEN "Unsupported action for pull_request event."
    ELSE IF ~cfg.IS_DEV /\ data.repository # SENTRY_REPO_UPSTREAM
    THEN "Unknown repository"
    ELSE IF ~cfg.IS_DEV /\ (\/ data.head_repo # SENTRY_REPO_UPSTREAM
                            \/ data.base_repo # SENTRY_REPO_UPSTREAM)
    THEN "Invalid head or base repos."
    ELSE IF ~cfg.IS_DEV /\ Merged(data)
    THEN "Pull request is already merged."
    ELSE IF NotFound(OrEmpty(data.body), GITBOT_MARKER)
    THEN "Deploy marker not found."
    ELSE IF cfg.IS_DEV /\ cfg.ENV = "staging"
    THEN "We do not support this for staging."
    ELSE IF data.sha # ""
    THEN Proceed
    ELSE "Commit not relevant for deploy sync."

\* the checks of process_pull_request in the order of the code: the reason
\* of the first return reached, or Proceed when bump_version is called
process_pull_request(data) ==
    IF Unsupported(data.action)
    THEN "Unsupported action for pull_request event."
    ELSE IF ~cfg.IS_DEV /\ data.repository # SENTRY_REPO_UPSTREAM
    THEN "Unknown repository"
    ELSE IF ~cfg.IS_DEV /\ (\/ data.head_repo # SENTRY_REPO_UPSTREAM
                            \/ data.base_repo # SENTRY_REPO_UPSTREAM)
    THEN "Invalid head or base repos."
    ELSE IF ~cfg.IS_DEV /\ Merged(data)
    THEN "Pull request is already merged."
    ELSE IF cfg.IS_DEV /\ cfg.ENV = "staging"
    THEN "We do not support this for staging."
    ELSE IF NotFound(OrEmpty(data.body), GITBOT_MARKER)
    THEN "Deploy marker not found."
    ELSE IF data.sha # ""
    THEN Proceed
    ELSE "Commit not relevant for deploy sync."

\* POST /: the signature check, the event type, process_pull_request and,
\* when it calls bump_version, the entry of update_checkout
index(r, kinds) ==
    /\ pc[r] = "idle"
    /\ Arrived(r)
    /\ \E data \in PullRequests, event_type \in EventTypes, kind \in kinds :
       LET header == Header(kind, data, [data EXCEPT !.ref = "other"])
           decision == process_pull_request(data)
       IN
        /\ req' = [req EXCEPT ![r] =
                     [endpoint |-> "/", header |-> header, body |-> data,
                      event_type |-> event_type]]
        /\ IF Crashed(cfg.GITHUB_WEBHOOK_SECRET, data, header)
           THEN /\ Unhandled(r, "TypeError")
                /\ UNCHANGED syncBase
           ELSE IF Refused(cfg.GITHUB_WEBHOOK_SECRET, data, header)
           THEN /\ respond(r, "Cannot validate payload signature.", NoSha,
                           403, <<>>)
                /\ UNCHANGED syncBase
           ELSE IF event_type # "pull_request"
           THEN /\ respond(r, "Unsupported event type.", NoSha, 200, <<>>)
                /\ UNCHANGED syncBase
           ELSE IF decision # Proceed
           THEN /\ respond(r, decision, NoSha, 200, <<>>)
                /\ UNCHANGED syncBase
           ELSE /\ syncBase' = [syncBase EXCEPT ![r] = completed["getsentry"]]
                /\ Continue(r, update_checkout_entry("getsentry"))
    /\ UNCHANGED <<cfg, remote, checkout, tmpdirs, subject, cmds, extPushes,
                   completed, pushedTip>>

\* bump_version(branch, ref_sha) after its update_checkout: the bump command
\* runs in the getsentry checkout; updated is whether it exited with zero
BumpVersion(r) ==
    /\ pc[r] = "bump"
    /\ \E rc \in ExitCodes :
        /\ Ran(r, "bin/bump-sentry", "checkout", rc)
        /\ RespondBump(r, IF Raises(rc) THEN BumpFailed ELSE BumpDone)
    /\ UNCHANGED <<cfg, remote, checkout, tmpdirs, req, subject, extPushes,
                   completed, syncBase, pushedTip>>

----------------------------------------------------------------------------
(* The bump command: extract_author(data) and bump_command(ref_sha, author) *)

\* an author is None or a text
NoAuthor == [null |-> TRUE, text |-> <<>>]

\* a push event's head_commit author, or its absence
NoMetadata == [present |-> FALSE, name |-> <<>>, email |-> <<>>]
Metadata(name, email) == [present |-> TRUE, name |-> name, email |-> email]

\* the double quotes of the name reach the command
extract_author_keeping_quotes(data) ==
    IF data.present
    THEN Text(data.name \o <<" <">> \o data.email \o <<">">>)
    ELSE NoAuthor

\* "<name> <<email>>", the name without its double quotes
extract_author(data) ==
    IF data.present
    THEN Text(Remove(data.name, Q) \o <<" <">> \o data.email \o <<">">>)
    ELSE NoAuthor

\* bump_sentry_path()
bump_sentry_path == <<"bin/bump-sentry">>

\* the argument list of the bump: every argument is a string
bump_command(ref_sha, author) ==
    <<bump_sentry_path, ref_sha>> \o
    (IF author.null THEN <<>> ELSE << <<"--author">>, author.text >>)

----------------------------------------------------------------------------
(* The environment *)

\* somebody else pushes a commit to a remote
ExternalPush(repo) ==
    /\ extPushes < MaxExternal
    /\ extPushes' = extPushes + 1
    /\ remote' = [remote EXCEPT ![repo] = @ + 1]
    /\ UNCHANGED <<cfg, checkout, tmpdirs, req, pc, subject, cmds, resp,
                   sentry, completed, syncBase, pushedTip>>

----------------------------------------------------------------------------
(* The process *)

Envs == {"development", "staging", "production"}

\* boot(): outside development both secrets are set
Configs ==
    { c \in [GITHUB_WEBHOOK_SECRET : {"", "key"}, GITBOT_API_SECRET : {"", "key"},
             IS_DEV : BOOLEAN, ENV : Envs, DRY_RUN : BOOLEAN] :
        c.ENV # "development" =>
            c.GITHUB_WEBHOOK_SECRET # "" /\ c.GITBOT_API_SECRET # "" }

\* boot() has cloned and updated both checkouts, or with FAST_STARTUP neither
Booted(fast) ==
    [repo \in Repos |->
        IF fast THEN Absent
        ELSE [exists |-> TRUE, master |-> InitCommits, origin |-> InitCommits,
              ahead |-> 0, dirty |-> FALSE]]

InitWith(CfgSet) ==
    /\ cfg \in CfgSet
    /\ remote = [repo \in Repos |-> InitCommits]
    /\ \E fast \in BOOLEAN :
        /\ checkout = Booted(fast)
        /\ completed = [repo \in Repos |-> IF fast THEN 0 ELSE InitCommits]
    /\ tmpdirs = [r \in Reqs |-> NoTmp]
    /\ req = [r \in Reqs |-> NoReq]
    /\ pc = [r \in Reqs |-> "idle"]
    /\ subject = [r \in Reqs |-> <<>>]
    /\ cmds = [r \in Reqs |-> <<>>]
    /\ resp = [r \in Reqs |-> NoResp]
    /\ sentry = [r \in Reqs |-> <<>>]
    /\ extPushes = 0
    /\ syncBase = [r \in Reqs |-> 0]
    /\ pushedTip = [r \in Reqs |-> 0]

\* a production process: both secrets set
Init == InitWith({c \in Configs : c.ENV = "production" /\ ~c.IS_DEV})

Next ==
    \/ \E r \in Reqs : revert(r, {"prefixed", "missing"})
    \/ \E r \in Reqs : GitClone(r)
    \/ \E r \in Reqs : GitConfig(r)
    \/ \E r \in Reqs : GitFetch(r)
    \/ \E r \in Reqs : GitReset(r)
    \/ \E r \in Reqs : GitPull(r)
    \/ \E r \in Reqs : CloneTmp(r)
    \/ \E r \in Reqs : GitLog(r)
    \/ \E r \in Reqs : GitRevert(r)
    \/ \E r \in Reqs : GitCommit(r)
    \/ \E r \in Reqs : GitPush(r)
    \/ \E r \in Reqs : GitRevParse(r)
    \/ \E repo \in Repos : ExternalPush(repo)

Spec == Init /\ [][Next]_vars

\* one request at a time, to either endpoint, under every configuration and
\* with every header
Single == {"r1"}

IntakeInit == InitWith(Configs)

IntakeNext ==
    \/ \E r \in Single : index(r, HeaderKinds)
    \/ \E r \in Single : revert(r, HeaderKinds)
    \/ \E r \in Single : GitClone(r)
    \/ \E r \in Single : GitConfig(r)
    \/ \E r \in Single : GitFetch(r)
    \/ \E r \in Single : GitReset(r)
    \/ \E r \in Single : GitPull(r)
    \/ \E r \in Single : BumpVersion(r)
    \/ \E r \in Single : CloneTmp(r)
    \/ \E r \in Single : GitLog(r)
    \/ \E r \in Single : GitRevert(r)
    \/ \E r \in Single : GitCommit(r)
    \/ \E r \in Single : GitPush(r)
    \/ \E r \in Single : GitRevParse(r)
    \/ \E repo \in Repos : ExternalPush(repo)

IntakeSpec == IntakeInit /\ [][IntakeNext]_vars

----------------------------------------------------------------------------
(* A process started with FAST_STARTUP over the checkouts an earlier process *)
(* left on disk: boot() does not update them, and the first request finds    *)
(* them absent, stale, or dirty and diverged after a failure                 *)

Leftover ==
    {Absent} \cup
    {[exists |-> TRUE, master |-> m, origin |-> o, ahead |-> a, dirty |-> d] :
        m \in 0 .. InitCommits, o \in 0 .. InitCommits, a \in 0 .. 1,
        d \in BOOLEAN}

SyncInit ==
    /\ cfg \in {c \in Configs : c.ENV = "production" /\ ~c.IS_DEV}
    /\ remote = [repo \in Repos |-> InitCommits]
    /\ \E c \in {l \in Leftover : l.master <= l.origin} :
        checkout = [repo \in Repos |-> c]
    /\ completed = [repo \in Repos |-> 0]
    /\ tmpdirs = [r \in Reqs |-> NoTmp]
    /\ req = [r \in Reqs |-> NoReq]
    /\ pc = [r \in Reqs |-> "idle"]
    /\ subject = [r \in Reqs |-> <<>>]
    /\ cmds = [r \in Reqs |-> <<>>]
    /\ resp = [r \in Reqs |-> NoResp]
    /\ sentry = [r \in Reqs |-> <<>>]
    /\ extPushes = 0
    /\ syncBase = [r \in Reqs |-> 0]
    /\ pushedTip = [r \in Reqs |-> 0]

\* one revert request with a valid signature
SyncNext ==
    \/ \E r \in Single : revert(r, {"prefixed"})
    \/ \E r \in Single : GitClone(r)
    \/ \E r \in Single : GitConfig(r)
    \/ \E r \in Single : GitFetch(r)
    \/ \E r \in Single : GitReset(r)
    \/ \E r \in Single : GitPull(r)
    \/ \E r \in Single : CloneTmp(r)
    \/ \E r \in Single : GitLog(r)
    \/ \E r \in Single : GitRevert(r)
    \/ \E r \in Single : GitCommit(r)
    \/ \E r \in Single : GitPush(r)
    \/ \E r \in Single : GitRevParse(r)
    \/ \E repo \in Repos : ExternalPush(repo)

SyncSpec == SyncInit /\ [][SyncNext]_vars

----------------------------------------------------------------------------
(* Direct calls of the functions, as the unit tests make them: req[r] holds *)
(* the arguments and what the call returned                                 *)

Secrets == {"", "key", "wrong"}

\* the signatures tried for a payload: every digest under every secret, the
\* empty string, a digest with the sha1= prefix left on, and a string with a
\* character outside ASCII
Signatures ==
    {hexdigest(secret, payload) : secret \in Secrets, payload \in RevertBodies}
      \cup {<<SigPrefix>> \o hexdigest("key", payload) : payload \in RevertBodies}
      \cup {<<>>, <<NonAscii>>}

\* valid_payload(secret, payload, signature)
CallValidPayload(r) ==
    /\ pc[r] = "idle"
    /\ \E secret \in Secrets, payload \in RevertBodies, signature \in Signatures :
        LET returned ==
                IF valid_payload_raises(secret, payload, signature)
                THEN "TypeError"
                ELSE IF valid_payload(secret, payload, signature)
                THEN "True" ELSE "False"
        IN  req' = [req EXCEPT ![r] =
                      [endpoint |-> "valid_payload", secret |-> secret,
                       payload |-> payload, signature |-> signature,
                       returned |-> returned]]
    /\ pc' = [pc EXCEPT ![r] = "done"]
    /\ UNCHANGED <<cfg, remote, checkout, tmpdirs, subject, cmds, resp, sentry,
                   extPushes, completed, syncBase, pushedTip>>

AuthorNames == {<<"Jane Doe">>, <<"Aniket Das ", Q, "Tekky">>,
                <<Q, "A", Q, " ", Q, "B", Q>>}
AuthorEmails == {<<"e@x">>, <<"85517732+AniketDas-Tekky@users.noreply.github.com">>}
Authors ==
    {NoMetadata} \cup {Metadata(n, e) : n \in AuthorNames, e \in AuthorEmails}

\* bump_command(ref_sha, author=extract_author(event))
CallBumpCommand(r) ==
    /\ pc[r] = "idle"
    /\ \E data \in Authors, ref_sha \in {<<"foo">>, <<"abc123">>} :
        req' = [req EXCEPT ![r] =
                  [endpoint |-> "bump_command", data |-> data,
                   ref_sha |-> ref_sha,
                   returned |-> bump_command(ref_sha, extract_author(data))]]
    /\ pc' = [pc EXCEPT ![r] = "done"]
    /\ UNCHANGED <<cfg, remote, checkout, tmpdirs, subject, cmds, resp, sentry,
                   extPushes, completed, syncBase, pushedTip>>

CallNext ==
    \/ \E r \in Single : CallValidPayload(r)
    \/ \E r \in Single : CallBumpCommand(r)

CallSpec == Init /\ [][CallNext]_vars

----------------------------------------------------------------------------
(* Properties *)

Range(s) == {s[i] : i \in 1 .. Len(s)}

Names(r) == {cmds[r][i].cmd : i \in 1 .. Len(cmds[r])}

\* the secret of the endpoint r was sent to
SecretOf(r) ==
    IF req[r].endpoint = "/" THEN cfg.GITHUB_WEBHOOK_SECRET
    ELSE cfg.GITBOT_API_SECRET

\* r carries a signature that is not the digest of its payload under the
\* configured, non-empty secret
BadSignature(r) ==
    /\ req[r].endpoint # "none"
    /\ SecretOf(r) # ""
    /\ Remove(req[r].header, SigPrefix) # hexdigest(SecretOf(r), req[r].body)

\* C1: on both endpoints a request whose signature does not verify under a
\* non-empty secret is answered 403 and has run no command, made no
\* temporary directory and left the checkouts and the remotes as they were
\* (one request is served, so the checkouts are as boot() left them and the
\* remotes hold only what others pushed).
AuthFailureRejected ==
    \A r \in Reqs :
        BadSignature(r) =>
            /\ pc[r] = "done"
            /\ resp[r].status = 403
            /\ cmds[r] = <<>>
            /\ \A q \in Reqs : ~tmpdirs[q].exists
            /\ checkout \in {Booted(TRUE), Booted(FALSE)}
            /\ remote["sentry"] + remote["getsentry"] = 2 * InitCommits + extPushes

AuthFailureReached ==
    \E r \in Reqs :
        /\ BadSignature(r)
        /\ req[r].endpoint = "/api/revert"
        /\ req[r].header # <<>>
        /\ resp[r].status = 403

----------------------------------------------------------------------------

\* r is between the start of its fetch and the end of its pull on repo
Syncing(r, repo) == pc[r] \in {"reset", "pull"} /\ RepoOf(r) = repo

\* C2: at most one request is between the start of its fetch and the end of
\* its pull on a given checkout.
SyncsNeverInterleave ==
    \A repo \in Repos : Cardinality({r \in Reqs : Syncing(r, repo)}) <= 1

----------------------------------------------------------------------------

\* the step in which r reads the shared checkout: its local clone
ReadsCheckout(r) == pc[r] = "clone_tmp" /\ pc'[r] # "clone_tmp"

\* C3: synchronization of a checkout is linearizable: the clone a request
\* takes after its sync holds every commit brought in by the syncs completed
\* before its sync began, the checkout's tip never regresses, and the
\* checkout is never read while another request is between its fetch and
\* its pull.
SyncLinearizable ==
    /\ [](\A r \in Reqs : tmpdirs[r].cloned => tmpdirs[r].base >= syncBase[r])
    /\ [][\A repo \in Repos :
            checkout'[repo].master >= checkout[repo].master]_vars
    /\ [][\A r \in Reqs :
            ReadsCheckout(r) =>
                ~\E q \in Reqs \ {r} : Syncing(q, RepoOf(r))]_vars

----------------------------------------------------------------------------

InFlight(r) == req[r].endpoint = "/api/revert" /\ pc[r] # "done"

\* C4: once a revert request has returned its response its temporary
\* directory is gone, so there are never more temporary directories than
\* revert requests in flight.
TmpDirsDeleted ==
    /\ \A r \in Reqs : pc[r] = "done" => ~tmpdirs[r].exists
    /\ Cardinality({r \in Reqs : tmpdirs[r].exists})
         <= Cardinality({r \in Reqs : InFlight(r)})

----------------------------------------------------------------------------

\* C5: the revert_sha of a successful revert that was pushed is the tip of
\* the remote's master after the push, the new revert commit, and not the
\* tip the checkout had before.
RevertShaIsPushedTip ==
    \A r \in Reqs :
        (/\ req[r].endpoint = "/api/revert"
         /\ resp[r].status = 200
         /\ ~cfg.DRY_RUN) =>
            /\ resp[r].revert_sha = ShaText(pushedTip[r])
            /\ resp[r].revert_sha # ShaText(tmpdirs[r].base)

----------------------------------------------------------------------------

\* git log returned the subject to r
LogReturned(r) ==
    \E i \in 1 .. Len(cmds[r]) :
        cmds[r][i].cmd = "git log" /\ cmds[r][i].returncode = 0

\* r asks to revert, in getsentry, a commit whose subject begins with the
\* upstream-bump marker
BumpInGetsentry(r) ==
    /\ req[r].body.repo = "getsentry"
    /\ StartsWith(SubjectOf(req[r].body.sha), <<BumpMarker>>)

\* C6: a revert in getsentry of a commit whose subject begins with
\* getsentry/sentry@ is answered 400 with the guard's reason and runs no
\* git revert, git commit or git push; no other request is answered so.
CrossRepoGuard ==
    \A r \in Reqs :
        (req[r].endpoint = "/api/revert" /\ LogReturned(r)) =>
            IF BumpInGetsentry(r)
            THEN /\ pc[r] = "done"
                 /\ resp[r].status = 400
                 /\ resp[r].reason = GuardReason
                 /\ Names(r) \cap {"git revert --no-commit", "git commit",
                                   "git push", "git push --dry-run"} = {}
            ELSE resp[r].reason # GuardReason

----------------------------------------------------------------------------

Pushes == {"git push", "git push --dry-run"}

\* C7: in the revert workflow a command that exits non-zero is the last
\* command of its request, which is answered 400 "Failed to revert." after
\* the failure was captured; no command is run twice, and push runs only
\* after revert and commit succeeded.
CommandFailureAborts ==
    \A r \in Reqs :
        req[r].endpoint = "/api/revert" =>
            /\ \A i \in 1 .. Len(cmds[r]) :
                cmds[r][i].returncode # 0 =>
                    /\ i = Len(cmds[r])
                    /\ pc[r] = "done"
                    /\ resp[r] = [status |-> 400, reason |-> "Failed to revert.",
                                  revert_sha |-> NoSha]
                    /\ Exception("CommandError") \in Range(sentry[r])
            /\ \A i, j \in 1 .. Len(cmds[r]) :
                i < j => cmds[r][i].cmd # cmds[r][j].cmd
            /\ \A k \in 1 .. Len(cmds[r]) :
                cmds[r][k].cmd \in Pushes =>
                    \E i, j \in 1 .. k - 1 :
                        /\ i < j
                        /\ cmds[r][i] = Cmd("git revert --no-commit", "tmp_dir", 0)
                        /\ cmds[r][j].cmd = "git commit"
                        /\ cmds[r][j].returncode = 0

PushFailureReached ==
    \E r \in Reqs :
        /\ cmds[r] # <<>>
        /\ cmds[r][Len(cmds[r])].cmd = "git push"
        /\ cmds[r][Len(cmds[r])].returncode # 0
        /\ resp[r].status = 400

----------------------------------------------------------------------------

TmpSteps == {"clone_tmp", "log", "revert", "commit", "push", "rev_parse"}

\* C8: after its sync a revert request leaves the shared checkouts as they
\* are: every step from the local clone to the push and the rev-parse,
\* failing or not, changes no checkout, and revert, commit and push run in
\* the request's temporary directory.
RevertLeavesCheckout ==
    /\ [][\A r \in Reqs :
            (pc[r] \in TmpSteps /\ pc'[r] # pc[r]) => checkout' = checkout]_vars
    /\ [](\A r \in Reqs : \A c \in Range(cmds[r]) :
            c.cmd \in Pushes \cup {"git revert --no-commit", "git commit"} =>
                c.cwd = "tmp_dir")

PushedReached ==
    \E r \in Reqs :
        /\ pc[r] = "rev_parse"
        /\ ~cfg.DRY_RUN
        /\ remote[RepoOf(r)] = tmpdirs[r].base + 1
        /\ checkout[RepoOf(r)].master = tmpdirs[r].base

----------------------------------------------------------------------------

\* the webhook r passed the signature check as a pull_request event
Classified(r) ==
    /\ req[r].endpoint = "/"
    /\ ~BadSignature(r)
    /\ req[r].event_type = "pull_request"

\* C9: a pull-request event whose action is neither opened nor synchronize
\* is ignored, with status 200 and no bump, whatever its other fields and
\* the configuration are.
UnsupportedActionIgnored ==
    \A r \in Reqs :
        (Classified(r) /\ req[r].body.action \notin {"opened", "synchronize"}) =>
            /\ pc[r] = "done"
            /\ resp[r].status = 200
            /\ resp[r].reason = "Unsupported action for pull_request event."
            /\ cmds[r] = <<>>

\* an event that passes every other check of the classifier
Deployable(data) ==
    /\ data.repository = SENTRY_REPO_UPSTREAM
    /\ data.head_repo = SENTRY_REPO_UPSTREAM
    /\ data.base_repo = SENTRY_REPO_UPSTREAM
    /\ data.body = Text(<<"Fixes a bug.", GITBOT_MARKER>>)
    /\ data.sha # ""

UnsupportedActionReached ==
    \E r \in Reqs :
        /\ Classified(r)
        /\ req[r].body.action = "closed"
        /\ Deployable(req[r].body)
        /\ ~req[r].body.merged
        /\ resp[r].status = 200

----------------------------------------------------------------------------

\* C10 as stated: outside the trusted mode every merged event is ignored
\* with the reason "Pull request is already merged." and no bump.
MergedAnsweredAlreadyMerged ==
    \A r \in Reqs :
        (Classified(r) /\ ~cfg.IS_DEV /\ req[r].body.merged) =>
            /\ resp[r].status = 200
            /\ resp[r].reason = "Pull request is already merged."
            /\ cmds[r] = <<>>

\* C10, amended: outside the trusted mode every merged event is ignored,
\* with status 200 and no bump, also when the marker is in the body; the
\* reason is "Pull request is already merged." exactly when the earlier
\* rules pass: the action is supported and the event's, the head's and the
\* base's repository are the upstream.
MergedIgnored ==
    \A r \in Reqs :
        (Classified(r) /\ ~cfg.IS_DEV /\ req[r].body.merged) =>
            /\ pc[r] = "done"
            /\ resp[r].status = 200
            /\ cmds[r] = <<>>
            /\ resp[r].reason = "Pull request is already merged."
                 <=> /\ req[r].body.action \in {"opened", "synchronize"}
                     /\ req[r].body.repository = SENTRY_REPO_UPSTREAM
                     /\ req[r].body.head_repo = SENTRY_REPO_UPSTREAM
                     /\ req[r].body.base_repo = SENTRY_REPO_UPSTREAM

MergedReached ==
    \E r \in Reqs :
        /\ Classified(r)
        /\ ~cfg.IS_DEV
        /\ req[r].body.merged
        /\ req[r].body.action = "opened"
        /\ Deployable(req[r].body)
        /\ resp[r].reason = "Pull request is already merged."

----------------------------------------------------------------------------

\* the body of the pull request does not hold the deploy marker
LacksMarker(data) ==
    data.body.null \/ GITBOT_MARKER \notin Range(data.body.text)

\* the rules before the marker rule let the event through
PassesEarlierRules(data) ==
    /\ data.action \in {"opened", "synchronize"}
    /\ IF cfg.IS_DEV THEN cfg.ENV # "staging"
       ELSE /\ data.repository = SENTRY_REPO_UPSTREAM
            /\ data.head_repo = SENTRY_REPO_UPSTREAM
            /\ data.base_repo = SENTRY_REPO_UPSTREAM
            /\ ~data.merged

\* C11: a pull-request event whose body does not hold the deploy marker, a
\* null or an empty body included, is ignored: it is answered 200 and no
\* bump is invoked, also when the head sha is present; when every other
\* filter passes the reason is "Deploy marker not found.".
MarkerlessIgnored ==
    \A r \in Reqs :
        (Classified(r) /\ LacksMarker(req[r].body)) =>
            /\ pc[r] = "done"
            /\ resp[r].status = 200
            /\ cmds[r] = <<>>
            /\ PassesEarlierRules(req[r].body) =>
                   resp[r].reason = "Deploy marker not found."

MarkerlessReached ==
    \E r \in Reqs :
        /\ Classified(r)
        /\ req[r].body.body = NullBody
        /\ req[r].body.sha # ""
        /\ PassesEarlierRules(req[r].body)
        /\ resp[r].reason = "Deploy marker not found."

----------------------------------------------------------------------------

IgnoreReasons ==
    {"Unsupported event type.",
     "Unsupported action for pull_request event.",
     "Unknown repository",
     "Invalid head or base repos.",
     "Pull request is already merged.",
     "We do not support this for staging.",
     "Deploy marker not found.",
     "Commit not relevant for deploy sync."}

\* the webhook r passed the signature check
Admitted(r) == req[r].endpoint = "/" /\ ~BadSignature(r)

\* C12: every Ignore outcome of the webhook endpoint is answered 200 and
\* sends nothing to the error-reporting sink: a response with one of the
\* eight Ignore reasons has status 200 and an empty capture list, and a
\* webhook that passed the signature check and returned without invoking
\* the bump carries one of these reasons.
IgnoreOutcomesSucceed ==
    \A r \in Reqs :
        /\ (req[r].endpoint = "/" /\ resp[r].reason \in IgnoreReasons) =>
               resp[r].status = 200 /\ sentry[r] = <<>>
        /\ (Admitted(r) /\ pc[r] = "done" /\ cmds[r] = <<>>) =>
               resp[r].reason \in IgnoreReasons

IgnoreOutcomeReached ==
    \E r \in Reqs :
        /\ Admitted(r)
        /\ req[r].event_type = "pull_request"
        /\ resp[r].reason = "Commit not relevant for deploy sync."
        /\ resp[r].status = 200
        /\ sentry[r] = <<>>

----------------------------------------------------------------------------

\* C13: a request whose signature does not verify is rejected at once, with
\* no command run, and nothing is sent to the error-reporting sink.
AuthFailureNotCaptured ==
    \A r \in Reqs :
        (BadSignature(r) /\ pc[r] = "done") =>
            /\ cmds[r] = <<>>
            /\ sentry[r] = <<>>

----------------------------------------------------------------------------

\* the classifier let the webhook r proceed to the bump
Proceeded(r) ==
    /\ Classified(r)
    /\ process_pull_request(req[r].body) = Proceed

\* the bump command of r ran and exited with zero
Updated(r) ==
    /\ cmds[r] # <<>>
    /\ cmds[r][Len(cmds[r])] = Cmd("bin/bump-sentry", "checkout", 0)

\* C14: for an event classified Proceed the status follows the bump result
\* alone: 200 when the bump updated, 400 when it did not, and the reason is
\* the bump's reason in both cases.
BumpStatusFollowsResult ==
    \A r \in Reqs :
        (Proceeded(r) /\ pc[r] = "done") =>
            IF Updated(r)
            THEN resp[r].status = 200 /\ resp[r].reason = BumpDone.reason
            ELSE resp[r].status = 400 /\ resp[r].reason = BumpFailed.reason

BumpFailureReached ==
    \E r \in Reqs :
        /\ Proceeded(r)
        /\ cmds[r] # <<>>
        /\ cmds[r][Len(cmds[r])] = Cmd("bin/bump-sentry", "checkout", 1)
        /\ resp[r].status = 400

----------------------------------------------------------------------------

\* C15: valid_payload(S, P, sig) returns true when sig is the hex HMAC of P
\* under S and returns false for every other signature.
ValidPayloadDecides ==
    \A r \in Reqs :
        req[r].endpoint = "valid_payload" =>
            req[r].returned =
                IF req[r].signature = hexdigest(req[r].secret, req[r].payload)
                THEN "True" ELSE "False"

----------------------------------------------------------------------------

\* the name without its double quotes
Unquoted(name) == SelectSeq(name, LAMBDA t : t # Q)

\* C16: without author metadata the bump command is [tool-path, ref_sha],
\* with no --author and no empty argument; with it the command is
\* [tool-path, ref_sha, "--author", author], the author being the name
\* without its double quotes, a blank, and the email in angle brackets.
BumpCommandBuilt ==
    \A r \in Reqs :
        req[r].endpoint = "bump_command" =>
            LET cmd == req[r].returned
                data == req[r].data
            IN  /\ Len(cmd) = IF data.present THEN 4 ELSE 2
                /\ cmd[1] = bump_sentry_path
                /\ cmd[2] = req[r].ref_sha
                /\ \A i \in 1 .. Len(cmd) : cmd[i] # <<>>
                /\ data.present =>
                    /\ cmd[3] = <<"--author">>
                    /\ cmd[4] = Unquoted(data.name) \o <<" <">> \o data.email
                                  \o <<">">>
                    /\ \A i \in 1 .. Len(cmd[4]) : cmd[4][i] # Q

BumpCommandReached ==
    \E r \in Reqs :
        /\ req[r].endpoint = "bump_command"
        /\ req[r].data.present
        /\ \E i \in 1 .. Len(req[r].data.name) : req[r].data.name[i] = Q
        /\ Len(req[r].returned) = 4

----------------------------------------------------------------------------

\* the reason of the first rule of the classifier that the webhook r fails,
\* in the order of the rules, or "" when it passes them all
FirstFailingRule(r) ==
    LET data == req[r].body
        upstream(name) == name = SENTRY_REPO_UPSTREAM
    IN  CASE req[r].event_type # "pull_request" -> "Unsupported event type."
          [] data.action \notin {"opened", "synchronize"} ->
                "Unsupported action for pull_request event."
          [] ~cfg.IS_DEV /\ ~upstream(data.repository) -> "Unknown repository"
          [] ~cfg.IS_DEV /\ ~(upstream(data.head_repo) /\ upstream(data.base_repo)) ->
                "Invalid head or base repos."
          [] ~cfg.IS_DEV /\ data.merged -> "Pull request is already merged."
          [] cfg.IS_DEV /\ cfg.ENV = "staging" ->
                "We do not support this for staging."
          [] LacksMarker(data) -> "Deploy marker not found."
          [] data.sha = "" -> "Commit not relevant for deploy sync."
          [] OTHER -> ""

\* how often the bump command ran for r
BumpRuns(r) ==
    Cardinality({i \in 1 .. Len(cmds[r]) : cmds[r][i].cmd = "bin/bump-sentry"})

\* the handler of r has called bump_version
BumpInvoked(r) == pc[r] # "done" \/ cmds[r] # <<>>

\* C17: the webhook handler invokes the bump at most once per request, and
\* exactly when the ordered rules all pass; otherwise the first failing rule
\* in this order gives the reason of the response, and no bump is invoked.
BumpExactlyWhenRulesPass ==
    \A r \in Reqs :
        Admitted(r) =>
            /\ BumpRuns(r) <= 1
            /\ BumpInvoked(r) <=> FirstFailingRule(r) = ""
            /\ FirstFailingRule(r) # "" =>
                /\ resp[r].reason = FirstFailingRule(r)
                /\ resp[r].status = 200

BumpRanReached ==
    \E r \in Reqs :
        /\ Admitted(r)
        /\ FirstFailingRule(r) = ""
        /\ cfg.IS_DEV
        /\ BumpRuns(r) = 1
        /\ resp[r].status = 200

----------------------------------------------------------------------------

CloneSteps == <<"git clone repo_url checkout", "git config pull.rebase false">>
SyncSteps == <<"git fetch origin master", "git reset --hard origin/master",
               "git pull origin master">>

\* the names of the first n commands of r, or of all of them
FirstNames(r, n) ==
    [i \in 1 .. (IF n < Len(cmds[r]) THEN n ELSE Len(cmds[r])) |-> cmds[r][i].cmd]

IsPrefix(s, t) == Len(s) <= Len(t) /\ \A i \in 1 .. Len(s) : s[i] = t[i]

\* the checkout is present, clean, and its master is the fetched ref
InSync(c) == c.exists /\ c.master = c.origin /\ c.ahead = 0 /\ ~c.dirty

\* r takes the step that ends its sync
EndsSync(r) == pc[r] = "pull" /\ pc'[r] = "clone_tmp"

\* C18: a sync that nobody interferes with and in which no command fails
\* ends, from any state of the checkout, with the checkout present, clean
\* and its master at the remote tip; clone and config run only when the
\* path was absent, fetch, reset and pull always run, in this order; and a
\* checkout that exists never becomes absent.
SyncRepairsCheckout ==
    /\ [][\A r \in Reqs :
            EndsSync(r) =>
                /\ InSync(checkout'[RepoOf(r)])
                /\ checkout'[RepoOf(r)].master = remote[RepoOf(r)]
                /\ \E k \in {0, 2} :
                    /\ Len(cmds'[r]) = k + 3
                    /\ \A i \in 1 .. 3 :
                        cmds'[r][k + i] = Cmd(SyncSteps[i], "checkout", 0)]_vars
    /\ [](\A r \in Reqs :
            \/ IsPrefix(FirstNames(r, 5), CloneSteps \o SyncSteps)
            \/ IsPrefix(FirstNames(r, 3), SyncSteps))
    /\ [][\A r \in Reqs :
            (pc[r] = "idle" /\ pc'[r] \notin {"idle", "done"}) =>
                (pc'[r] = "clone" <=> ~checkout[TargetRepo(req'[r].body.repo)].exists)]_vars
    /\ [][\A r \in Reqs :
            (pc[r] = "clone" /\ pc'[r] # "clone") =>
                ~checkout[RepoOf(r)].exists]_vars
    /\ [][\A repo \in Repos :
            checkout[repo].exists => checkout'[repo].exists]_vars

\* both checkouts start alike, so the one the request leaves alone shows
\* the state the synced one began in
RepairedReached ==
    \E r \in Reqs :
        /\ pc[r] = "clone_tmp"
        /\ RepoOf(r) = "sentry"
        /\ checkout["getsentry"].dirty
        /\ checkout["getsentry"].ahead > 0
        /\ checkout["getsentry"].master < remote["getsentry"]
        /\ InSync(checkout["sentry"])

----------------------------------------------------------------------------

\* how often r ran the command name
Runs(r, name) ==
    Cardinality({i \in 1 .. Len(cmds[r]) : cmds[r][i].cmd = name})

\* the pushes of r that were sent to the remote and accepted
Sent(r) ==
    Cardinality({i \in 1 .. Len(cmds[r]) :
                    cmds[r][i] = Cmd("git push", "tmp_dir", 0)})

\* C19: with DRY_RUN every push of a revert request is a dry run and the
\* remotes hold only what other people pushed, however the requests
\* interleave; without DRY_RUN no push is a dry run, every push that
\* succeeded added one commit to its remote, and a revert request answered
\* 200 has pushed exactly once, as its last command but one.
DryRunLeavesRemote ==
    /\ \A r \in Reqs : \A c \in Range(cmds[r]) :
        c.cmd \in Pushes => (c.cmd = "git push --dry-run" <=> cfg.DRY_RUN)
    /\ \A repo \in Repos :
        \E others \in 0 .. extPushes :
            remote[repo] = InitCommits + others +
                IF cfg.DRY_RUN THEN 0
                ELSE Cardinality({r \in Reqs :
                        /\ req[r].endpoint = "/api/revert"
                        /\ RepoOf(r) = repo
                        /\ Sent(r) = 1})
    /\ remote["sentry"] + remote["getsentry"] =
        2 * InitCommits + extPushes +
        IF cfg.DRY_RUN THEN 0
        ELSE Cardinality({r \in Reqs : req[r].endpoint = "/api/revert" /\ Sent(r) = 1})
    /\ \A r \in Reqs :
        (req[r].endpoint = "/api/revert" /\ resp[r].status = 200) =>
            /\ Runs(r, "git push") + Runs(r, "git push --dry-run") = 1
            /\ cmds[r][Len(cmds[r]) - 1].cmd \in Pushes
            /\ cmds[r][Len(cmds[r]) - 1].returncode = 0

DryRunsReached ==
    /\ cfg.DRY_RUN
    /\ \A r \in Reqs :
        /\ resp[r].status = 200
        /\ Runs(r, "git push --dry-run") = 1
    /\ RepoOf("r1") = RepoOf("r2")
    /\ remote[RepoOf("r1")] = InitCommits

----------------------------------------------------------------------------

\* C20: git clone into a checkout path runs only while the path is absent:
\* no clone is refused because the path exists (exit code 128), so no
\* request fails for having cloned into a path another request had just
\* created, and at most one clone into a path succeeds.
CloneOnlyWhenAbsent ==
    /\ \A r \in Reqs : \A c \in Range(cmds[r]) :
        c.cmd = "git clone repo_url checkout" => c.returncode # 128
    /\ \A repo \in Repos :
        Cardinality({r \in Reqs :
            /\ req[r].endpoint # "none"
            /\ RepoOf(r) = repo
            /\ Cmd("git clone repo_url checkout", "/tmp", 0) \in Range(cmds[r])})
          <= 1

====
